---- MODULE Spec2Model ----
(***************************************************************************)
(* The Spark -> embedding API -> Qdrant ingest service                     *)
(* (src/docker/ingest/app/app.py): the scheduling loop main, one run       *)
(* run_ingest, the collection bootstrap ensure_collection and the          *)
(* per-partition worker process_partition with fetch_embedding and         *)
(* flush_points.                                                           *)
(***************************************************************************)
EXTENDS Integers, Sequences, FiniteSets, TLC

\* ------------------------------------------------------------------ bounds
MaxRows == 3      \* rows of the dataset (all partitions together)
MaxBatch == 2     \* largest configured BATCH_SIZE
MaxRuns == 2      \* the ghost run counter saturates here
LiveRows == 2     \* rows of the dataset under LiveSpec
IdMaxRows == 2    \* rows of the dataset under IdSpec

\* --------------------------------------------------------- optional values
\* Python's None against a present value.
None == <<>>
Some(x) == <<x>>
IsNone(o) == o = <<>>
Val(o) == o[1]

Max(a, b) == IF a >= b THEN a ELSE b
Min(a, b) == IF a <= b THEN a ELSE b

RECURSIVE SumSeq(_)
SumSeq(s) == IF s = <<>> THEN 0 ELSE Head(s) + SumSeq(Tail(s))

\* ----------------------------------------------------------- configuration
QDRANT_COLLECTION == "embeddings"
ID_COLUMN == "id"
TEXT_COLUMN == "text"

\* ------------------------------------------------------------------- text
\* A text is a sequence of characters; SP is the whitespace character.
SP == " "
Whitespace == {SP}

RECURSIVE LStrip(_)
LStrip(s) == IF s # <<>> /\ Head(s) \in Whitespace THEN LStrip(Tail(s)) ELSE s

RECURSIVE RStrip(_)
RStrip(s) ==
    IF s # <<>> /\ s[Len(s)] \in Whitespace
    THEN RStrip(SubSeq(s, 1, Len(s) - 1))
    ELSE s

\* str.strip()
Strip(s) == RStrip(LStrip(s))

\* The rows a dataset is made of: a null text, an all-whitespace text, a text
\* that is valid once trimmed.
Rows ==
    { [id |-> Some(1), text |-> None],
      [id |-> Some(2), text |-> Some(<<SP>>)],
      [id |-> Some(3), text |-> Some(<<SP, "a">>)] }

RECURSIVE SeqsUpTo(_, _)
SeqsUpTo(S, n) ==
    IF n = 0 THEN {<<>>}
    ELSE LET shorter == SeqsUpTo(S, n - 1)
         IN  shorter \cup {Append(s, x) : s \in {t \in shorter : Len(t) = n - 1}, x \in S}

\* A dataset: its rows, cut by Spark into two contiguous partitions.
Partitions == {1, 2}
DataSetsOf(R, n) ==
    UNION { { << SubSeq(rs, 1, k), SubSeq(rs, k + 1, Len(rs)) >> : k \in 0..Len(rs) } :
              rs \in SeqsUpTo(R, n) }
DataSets == DataSetsOf(Rows, MaxRows)

\* Rows that all have a valid text and differ in their id: an id, the same
\* id on another text, no id, the id 0.
IdRows ==
    { [id |-> Some(5), text |-> Some(<<"a">>)],
      [id |-> Some(5), text |-> Some(<<"b">>)],
      [id |-> None,    text |-> Some(<<"a">>)],
      [id |-> Some(0), text |-> Some(<<"a">>)] }

\* The datasets of such rows, cut in the middle.
IdDataSets ==
    { << SubSeq(rs, 1, Len(rs) \div 2), SubSeq(rs, Len(rs) \div 2 + 1, Len(rs)) >> :
        rs \in SeqsUpTo(IdRows, IdMaxRows) }

\* The dataset configurations: INPUT_PATH, INPUT_FORMAT (already lower-cased
\* at line 19) and the columns of the file at that path.
Inputs ==
    { [path |-> "/data/in", format |-> "parquet", columns |-> {"id", "text"}],
      [path |-> "",         format |-> "parquet", columns |-> {"id", "text"}],
      [path |-> "/data/in", format |-> "json",    columns |-> {"id", "text"}],
      [path |-> "/data/in", format |-> "csv",     columns |-> {"id"}] }

\* What the embedding endpoint can answer to one POST: the transport raises,
\* a non-success status, a body that is no JSON object, a body without the
\* field, an empty vector, a vector.
Responses ==
    { [raises |-> TRUE,  ok |-> FALSE, json |-> None],
      [raises |-> FALSE, ok |-> FALSE, json |-> None],
      [raises |-> FALSE, ok |-> TRUE,  json |-> None],
      [raises |-> FALSE, ok |-> TRUE,  json |-> Some([text |-> "a"])],
      [raises |-> FALSE, ok |-> TRUE,  json |-> Some([text |-> "a", embedding |-> <<>>])],
      [raises |-> FALSE, ok |-> TRUE,  json |-> Some([text |-> "a", embedding |-> <<1>>])] }

\* QDRANT_DISTANCE values, as sequences of characters; None is the null
\* that resolve_distance guards against.
DistanceInputs ==
    { None,
      Some(<<>>),
      Some(<<"c", "o", "s", "i", "n", "e">>),
      Some(<<"d", "o", "t">>),
      Some(<<"D", "O", "T">>),
      Some(<<SP, "D", "o", "t", SP>>),
      Some(<<"d", "o", "t", "p", "r", "o", "d", "u", "c", "t">>),
      Some(<<"d", "o", "t", "_", "p", "r", "o", "d", "u", "c", "t">>),
      Some(<<"d", "o", "t", SP, "p", "r", "o", "d", "u", "c", "t">>),
      Some(<<"l", "2">>),
      Some(<<"L", "2", SP>>),
      Some(<<"e", "u", "c", "l", "i", "d">>),
      Some(<<"E", "u", "c", "l", "i", "d", "e", "a", "n">>),
      Some(<<"l", "1">>) }

VARIABLES
    BATCH_SIZE,             \* line 22
    QDRANT_DISTANCE,        \* line 25
    RUN_INTERVAL_SECONDS,   \* line 32
    input,                  \* INPUT_PATH, INPUT_FORMAT and the file's columns
    dataset,                \* the partitions of the file's rows
    collections,            \* the names of the collections in the store
    mainpc,                 \* where main is
    runpc,                  \* where run_ingest is
    runs,                   \* ghost: run_ingest calls so far, saturating
    lastRun,                \* ghost: how the last finished run ended
    result,                 \* what the last returning run returned
    ensureLog,              \* ghost: how the previous ensure_collection call ended,
                            \* and what the one of this run did
    store,                  \* the points of the collection, by point id
    snap,                   \* ghost: the store as the previous run left it, when
                            \* that run returned without a failed record
    part                    \* the state of each partition's process_partition

vars == << BATCH_SIZE, QDRANT_DISTANCE, RUN_INTERVAL_SECONDS, input, dataset,
           collections, mainpc, runpc, runs, lastRun, result, ensureLog, store,
           snap, part >>

config == << BATCH_SIZE, QDRANT_DISTANCE, RUN_INTERVAL_SECONDS, input, dataset >>

\* ------------------------------------------------------- resolve_distance
UpperCase == <<"A", "B", "C", "D", "E", "F", "G", "H", "I", "J", "K", "L", "M",
               "N", "O", "P", "Q", "R", "S", "T", "U", "V", "W", "X", "Y", "Z">>
LowerCase == <<"a", "b", "c", "d", "e", "f", "g", "h", "i", "j", "k", "l", "m",
               "n", "o", "p", "q", "r", "s", "t", "u", "v", "w", "x", "y", "z">>

\* str.lower()
LowerChar(c) ==
    IF \E k \in 1..26 : UpperCase[k] = c
    THEN LowerCase[CHOOSE k \in 1..26 : UpperCase[k] = c]
    ELSE c
Lower(s) == [k \in 1..Len(s) |-> LowerChar(s[k])]

\* Line 37 without .lower().
Normalize_NoLower(value) == Strip(IF IsNone(value) THEN <<>> ELSE Val(value))

\* Line 37: (value or "").strip().lower()
Normalize(value) == Lower(Strip(IF IsNone(value) THEN <<>> ELSE Val(value)))

\* Lines 36-42.
ResolveDistance(value) ==
    LET normalized == Normalize(value)
    IN  IF normalized \in { <<"d", "o", "t">>,
                            <<"d", "o", "t", "p", "r", "o", "d", "u", "c", "t">>,
                            <<"d", "o", "t", "_", "p", "r", "o", "d", "u", "c", "t">> }
        THEN "DOT"
        ELSE IF normalized \in { <<"l", "2">>,
                                 <<"e", "u", "c", "l", "i", "d">>,
                                 <<"e", "u", "c", "l", "i", "d", "e", "a", "n">> }
        THEN "EUCLID"
        ELSE "COSINE"

\* ------------------------------------------------------- fetch_embedding
\* fetch_embedding without its except clause.
FetchEmbedding_Uncaught(resp) ==
    [ requests |-> 1,
      raised   |-> resp.raises \/ (resp.ok /\ IsNone(resp.json)),
      value    |->
        IF resp.raises THEN None
        ELSE IF ~resp.ok THEN None
        ELSE IF IsNone(resp.json) THEN None
        ELSE IF "embedding" \notin DOMAIN Val(resp.json) THEN None
        ELSE IF Val(resp.json).embedding = <<>> THEN None
        ELSE Some(Val(resp.json).embedding) ]

\* One POST; the embedding when the status is a success and the body's
\* field is non-empty, None otherwise, and every exception is caught.
FetchEmbedding(resp) ==
    [ requests |-> 1,
      raised   |-> FALSE,
      value    |->
        IF resp.raises THEN None
        ELSE IF ~resp.ok THEN None
        ELSE IF IsNone(resp.json) THEN None
        ELSE IF "embedding" \notin DOMAIN Val(resp.json) THEN None
        ELSE IF Val(resp.json).embedding = <<>> THEN None
        ELSE Some(Val(resp.json).embedding) ]

\* ---------------------------------------------------------- flush_points
\* No call for an empty list; otherwise one upsert, which raises or not.
FlushPoints(points, upsertOK) ==
    IF points = <<>>
    THEN [calls |-> <<>>, raised |-> FALSE]
    ELSE [calls |-> << [points |-> points, ok |-> upsertOK] >>, raised |-> ~upsertOK]

\* client.upsert on the store: each point replaces the point of its id.
RECURSIVE Upsert(_, _)
Upsert(st, points) ==
    IF points = <<>> THEN st
    ELSE LET pt == Head(points)
             put == [ x \in DOMAIN st \cup {pt.id} |->
                        IF x = pt.id
                        THEN [vector |-> pt.vector, payload |-> pt.payload]
                        ELSE st[x] ]
         IN  Upsert(put, Tail(points))

\* The store after the calls flush_points made.
RECURSIVE Written(_, _)
Written(st, calls) ==
    IF calls = <<>> THEN st
    ELSE Written(IF Head(calls).ok THEN Upsert(st, Head(calls).points) ELSE st,
                 Tail(calls))

\* ----------------------------------------------------- process_partition
\* Lines 122-126.
NewPartition ==
    [ pc |-> "loop", idx |-> 0, processed |-> 0, failed |-> 0, buffer |-> <<>>,
      requests |-> 0, embedded |-> {}, upserts |-> <<>>, last |-> None ]

IdlePartition == [NewPartition EXCEPT !.pc = "idle"]

\* Line 139: the record's id, or a generated one.
Uuid(run, p, i) == <<"u", run, p, i>>
RecordId(row, fresh) ==
    IF ~IsNone(row.id) /\ Val(row.id) # 0
    THEN [type |-> "int", value |-> Val(row.id)]
    ELSE [type |-> "str", value |-> fresh]

\* Line 146: str(record_id); a string is a sequence of characters, a
\* generated id is a string already.
Digits == <<"0", "1", "2", "3", "4", "5", "6", "7", "8", "9">>
Str(v) == IF v.type = "int" THEN << Digits[v.value + 1] >> ELSE v.value

\* Line 145: the fields that are not None.
PayloadClean(row) ==
    { <<col, Val(row[col])>> : col \in {c \in {ID_COLUMN, TEXT_COLUMN} : ~IsNone(row[c])} }

\* Lines 134-135: the text is blank once trimmed.
IsBlank_NoStrip(text) == text = <<>>
IsBlank(text) == Strip(text) = <<>>

\* Line 148: the buffer has reached the batch size.
ThresholdReached_Greater(n, batchSize) == n > batchSize
ThresholdReached(n, batchSize) == n >= batchSize

\* Line 146 putting the point at the front of the buffer.
AppendPoint_Front(buffer, point) == <<point>> \o buffer

\* Line 146: buffer.append(point).
AppendPoint(buffer, point) == Append(buffer, point)

\* Lines 129-148 for the row at index i: validation, the embedding fetch,
\* the append, and whether the threshold flush is entered.
ProcessRow(st, row, i, resp, fresh, batchSize) ==
    IF IsNone(row.text)
    THEN [st EXCEPT !.idx = i, !.failed = @ + 1, !.last = None]
    ELSE IF IsBlank(Val(row.text))
    THEN [st EXCEPT !.idx = i, !.failed = @ + 1, !.last = None]
    ELSE
      LET got == FetchEmbedding(resp)
          sent == [st EXCEPT !.idx = i, !.requests = @ + got.requests,
                             !.last = Some(resp)]
      IN  IF got.raised THEN [sent EXCEPT !.pc = "raised"]
          ELSE IF IsNone(got.value)
          THEN [sent EXCEPT !.failed = @ + 1]
          ELSE
            LET point == [ id |-> Str(RecordId(row, fresh)), vector |-> Val(got.value),
                           payload |-> PayloadClean(row), src |-> i ]
                buf == AppendPoint(st.buffer, point)
            IN  [sent EXCEPT !.buffer = buf, !.embedded = @ \cup {i},
                             !.pc = IF ThresholdReached(Len(buf), batchSize)
                                    THEN "flush" ELSE "loop"]

\* The threshold flush counting one record for a batch.
ThresholdFlush_CountsOne(st, upsertOK) ==
    LET f == FlushPoints(st.buffer, upsertOK)
    IN  [st EXCEPT !.upserts = @ \o f.calls,
                   !.processed = IF f.raised THEN @ ELSE @ + 1,
                   !.failed = IF f.raised THEN @ + 1 ELSE @,
                   !.buffer = <<>>,
                   !.last = None,
                   !.pc = "loop"]

\* The threshold flush without buffer.clear().
ThresholdFlush_NoClear(st, upsertOK) ==
    LET f == FlushPoints(st.buffer, upsertOK)
    IN  [st EXCEPT !.upserts = @ \o f.calls,
                   !.processed = IF f.raised THEN @ ELSE @ + Len(st.buffer),
                   !.failed = IF f.raised THEN @ + Len(st.buffer) ELSE @,
                   !.last = None,
                   !.pc = "loop"]

\* The threshold flush clearing the buffer in the try body, not in a finally.
ThresholdFlush_ClearOnSuccess(st, upsertOK) ==
    LET f == FlushPoints(st.buffer, upsertOK)
    IN  [st EXCEPT !.upserts = @ \o f.calls,
                   !.processed = IF f.raised THEN @ ELSE @ + Len(st.buffer),
                   !.failed = IF f.raised THEN @ + Len(st.buffer) ELSE @,
                   !.buffer = IF f.raised THEN @ ELSE <<>>,
                   !.last = None,
                   !.pc = "loop"]

\* Lines 149-156: the threshold flush, its accounting and the clear.
ThresholdFlush(st, upsertOK) ==
    LET f == FlushPoints(st.buffer, upsertOK)
    IN  [st EXCEPT !.upserts = @ \o f.calls,
                   !.processed = IF f.raised THEN @ ELSE @ + Len(st.buffer),
                   !.failed = IF f.raised THEN @ + Len(st.buffer) ELSE @,
                   !.buffer = <<>>,
                   !.last = None,
                   !.pc = "loop"]

\* The final flush without its except clause.
FinalFlush_Uncaught(st, upsertOK) ==
    IF st.buffer # <<>>
    THEN LET f == FlushPoints(st.buffer, upsertOK)
         IN  [st EXCEPT !.upserts = @ \o f.calls,
                        !.processed = IF f.raised THEN @ ELSE @ + Len(st.buffer),
                        !.last = None,
                        !.pc = IF f.raised THEN "raised" ELSE "done"]
    ELSE [st EXCEPT !.last = None, !.pc = "done"]

\* The return without the flush of what is left.
FinalFlush_Skipped(st, upsertOK) ==
    [st EXCEPT !.failed = @ + Len(st.buffer), !.last = None, !.pc = "done"]

\* Lines 158-166: the flush of what is left, and the return.
FinalFlush(st, upsertOK) ==
    IF st.buffer # <<>>
    THEN LET f == FlushPoints(st.buffer, upsertOK)
         IN  [st EXCEPT !.upserts = @ \o f.calls,
                        !.processed = IF f.raised THEN @ ELSE @ + Len(st.buffer),
                        !.failed = IF f.raised THEN @ + Len(st.buffer) ELSE @,
                        !.last = None,
                        !.pc = "done"]
    ELSE [st EXCEPT !.last = None, !.pc = "done"]

\* -------------------------------------------------------- load_dataframe
\* load_dataframe without the test of lines 93-95.
LoadRaises_NoColumnCheck(in) ==
    \/ in.path = ""
    \/ in.format \notin {"csv", "parquet"}

\* TRUE when load_dataframe raises.
LoadRaises(in) ==
    \/ in.path = ""
    \/ in.format \notin {"csv", "parquet"}
    \/ \E col \in {ID_COLUMN, TEXT_COLUMN} : col \notin in.columns

\* ----------------------------------------------------- ensure_collection
\* ensure_collection without the return of line 55.
EnsureCollection_AlwaysCreate(colls, listOK, createOK) ==
    LET done == createOK /\ QDRANT_COLLECTION \notin colls
    IN  [ existed |-> QDRANT_COLLECTION \in colls,
          listed |-> listOK, create |-> TRUE, raised |-> ~done,
          colls |-> IF done THEN colls \cup {QDRANT_COLLECTION} ELSE colls ]

\* listOK: get_collections answers; createOK: the store is reachable for the
\* create. The store refuses to create a collection that exists.
EnsureCollection(colls, listOK, createOK) ==
    IF listOK /\ QDRANT_COLLECTION \in colls
    THEN [ existed |-> TRUE, listed |-> TRUE, create |-> FALSE, raised |-> FALSE,
           colls |-> colls ]
    ELSE LET done == createOK /\ QDRANT_COLLECTION \notin colls
         IN  [ existed |-> QDRANT_COLLECTION \in colls,
               listed |-> listOK, create |-> TRUE, raised |-> ~done,
               colls |-> IF done THEN colls \cup {QDRANT_COLLECTION} ELSE colls ]

\* ------------------------------------------------------------------ main
\* main without its except clause: the exception ends the process.
AfterRun_Uncaught(raised) == IF raised THEN "exited" ELSE "interval"

\* Lines 191-197: where main goes when run_ingest has ended.
AfterRun(raised) == "interval"

\* Line 197 testing < 0.
AfterInterval_Negative(interval) == IF interval < 0 THEN "park" ELSE "sleep"

\* Lines 197-203.
AfterInterval(interval) == IF interval <= 0 THEN "park" ELSE "sleep"

\* The empty store.
NoPoints == [x \in {} |-> x]

\* Before main: nothing has run.
Start ==
    /\ store = NoPoints
    /\ snap = None
    /\ mainpc = "run"
    /\ runpc = "idle"
    /\ runs = 0
    /\ lastRun = "none"
    /\ result = None
    /\ ensureLog = [prev |-> "none", cur |-> None]
    /\ part = [p \in Partitions |-> IdlePartition]

Init ==
    /\ BATCH_SIZE \in 0..MaxBatch
    /\ QDRANT_DISTANCE = Some(<<"c", "o", "s", "i", "n", "e">>)
    /\ RUN_INTERVAL_SECONDS \in {-1, 0, 1}
    /\ input \in Inputs
    /\ dataset \in DataSets
    /\ collections \in {{"other"}, {"other", QDRANT_COLLECTION}}
    /\ Start

\* Line 192: main calls run_ingest.
MainCallRun ==
    /\ mainpc = "run"
    /\ mainpc' = "running"
    /\ runpc' = "load"
    /\ runs' = Min(runs + 1, MaxRuns)
    /\ lastRun' = "none"
    /\ result' = None
    /\ ensureLog' = [ prev |-> IF IsNone(ensureLog.cur) THEN ensureLog.prev ELSE "raised",
                      cur  |-> None ]
    /\ part' = [p \in Partitions |-> IdlePartition]
    /\ UNCHANGED << config, collections, store, snap >>

\* What an exception leaving run_ingest does: lines 194-195.
RunRaised ==
    /\ runpc' = "idle"
    /\ lastRun' = "raised"
    /\ mainpc' = AfterRun(TRUE)
    /\ snap' = None
    /\ UNCHANGED << result >>

\* Lines 170-173.
RunLoad ==
    /\ runpc = "load"
    /\ IF LoadRaises(input)
       THEN RunRaised
       ELSE /\ runpc' = "ensure"
            /\ UNCHANGED << mainpc, lastRun, result, snap >>
    /\ UNCHANGED << config, collections, runs, ensureLog, store, part >>

\* Lines 175-176: the collection is ensured.
RunEnsure ==
    /\ runpc = "ensure"
    /\ \E listOK \in BOOLEAN, createOK \in BOOLEAN :
         LET e == EnsureCollection(collections, listOK, createOK)
         IN  /\ collections' = e.colls
             /\ ensureLog' = [ensureLog EXCEPT !.cur =
                    Some([ existed |-> e.existed, listed |-> e.listed,
                           create |-> e.create, raised |-> e.raised,
                           distance |-> IF e.create
                                        THEN Some(ResolveDistance(QDRANT_DISTANCE))
                                        ELSE None ])]
             /\ IF e.raised
                THEN RunRaised
                ELSE /\ runpc' = "dispatch"
                     /\ UNCHANGED << mainpc, lastRun, result, snap >>
    /\ UNCHANGED << config, runs, store, part >>

\* Line 178: mapPartitions hands every partition to a process_partition.
RunDispatch ==
    /\ runpc = "dispatch"
    /\ runpc' = "map"
    /\ part' = [p \in Partitions |-> NewPartition]
    /\ ensureLog' = [prev |-> "returned", cur |-> None]
    /\ UNCHANGED << config, collections, mainpc, runs, lastRun, result, store, snap >>

\* One iteration of the loop at line 128.
PartRow(p) ==
    /\ runpc = "map"
    /\ part[p].pc = "loop"
    /\ part[p].idx < Len(dataset[p])
    /\ \E resp \in Responses :
         LET i == part[p].idx + 1
         IN  part' = [part EXCEPT ![p] =
                 ProcessRow(part[p], dataset[p][i], i, resp, Uuid(runs, p, i), BATCH_SIZE)]
    /\ UNCHANGED << config, collections, mainpc, runpc, runs, lastRun, result, ensureLog,
                    store, snap >>

\* Lines 149-156.
PartFlush(p) ==
    /\ runpc = "map"
    /\ part[p].pc = "flush"
    /\ \E upsertOK \in BOOLEAN :
         /\ part' = [part EXCEPT ![p] = ThresholdFlush(part[p], upsertOK)]
         /\ store' = Written(store, SubSeq(part'[p].upserts, Len(part[p].upserts) + 1,
                                           Len(part'[p].upserts)))
    /\ UNCHANGED << config, collections, mainpc, runpc, runs, lastRun, result, ensureLog,
                    snap >>

\* Lines 158-166, once the rows are exhausted.
PartFinal(p) ==
    /\ runpc = "map"
    /\ part[p].pc = "loop"
    /\ part[p].idx = Len(dataset[p])
    /\ \E upsertOK \in BOOLEAN :
         /\ part' = [part EXCEPT ![p] = FinalFlush(part[p], upsertOK)]
         /\ store' = Written(store, SubSeq(part'[p].upserts, Len(part[p].upserts) + 1,
                                           Len(part'[p].upserts)))
    /\ UNCHANGED << config, collections, mainpc, runpc, runs, lastRun, result, ensureLog,
                    snap >>

\* Lines 181-182 taking the first partition's pair for the totals.
Aggregate_FirstOnly(stats) == stats[1]

\* Lines 181-182.
Aggregate(stats) ==
    << SumSeq([k \in 1..Len(stats) |-> stats[k][1]]),
       SumSeq([k \in 1..Len(stats) |-> stats[k][2]]) >>

\* Lines 178-186: collect() returns once every partition has ended, and
\* raises when a partition raised.
RunCollect ==
    /\ runpc = "map"
    /\ \A p \in Partitions : part[p].pc \in {"done", "raised"}
    /\ IF \E p \in Partitions : part[p].pc = "raised"
       THEN RunRaised
       ELSE /\ runpc' = "idle"
            /\ lastRun' = "returned"
            /\ result' = Some(Aggregate([p \in 1..2 |->
                               << part[p].processed, part[p].failed >>]))
            /\ mainpc' = AfterRun(FALSE)
            /\ snap' = IF result'[1][2] = 0 THEN Some(store) ELSE None
    /\ UNCHANGED << config, collections, runs, ensureLog, store, part >>

\* Line 197.
MainInterval ==
    /\ mainpc = "interval"
    /\ mainpc' = AfterInterval(RUN_INTERVAL_SECONDS)
    /\ UNCHANGED << config, collections, runpc, runs, lastRun, result, ensureLog, store,
                    snap, part >>

\* Lines 202-203.
MainSleep ==
    /\ mainpc = "sleep"
    /\ mainpc' = "run"
    /\ UNCHANGED << config, collections, runpc, runs, lastRun, result, ensureLog, store,
                    snap, part >>

\* Lines 199-200.
MainPark ==
    /\ mainpc = "park"
    /\ mainpc' = "park"
    /\ UNCHANGED << config, collections, runpc, runs, lastRun, result, ensureLog, store,
                    snap, part >>

Next ==
    \/ MainCallRun
    \/ RunLoad
    \/ RunEnsure
    \/ RunDispatch
    \/ \E p \in Partitions : PartRow(p)
    \/ \E p \in Partitions : PartFlush(p)
    \/ \E p \in Partitions : PartFinal(p)
    \/ RunCollect
    \/ MainInterval
    \/ MainSleep
    \/ MainPark

Spec == Init /\ [][Next]_vars

\* main is one thread and every call it makes returns or raises; Spark runs
\* every partition it was handed to its end.
LiveInit == Init /\ Len(dataset[1]) + Len(dataset[2]) <= LiveRows
LiveSpec == LiveInit /\ [][Next]_vars /\ WF_vars(Next)

\* The runs over one dataset of a single row under every spelling of
\* QDRANT_DISTANCE, for what resolve_distance hands to create_collection.
DistInit ==
    /\ BATCH_SIZE = 1
    /\ QDRANT_DISTANCE \in DistanceInputs
    /\ RUN_INTERVAL_SECONDS \in {0, 1}
    /\ input = [path |-> "/data/in", format |-> "parquet", columns |-> {"id", "text"}]
    /\ dataset = << << [id |-> Some(3), text |-> Some(<<SP, "a">>)] >>, <<>> >>
    /\ collections \in {{"other"}, {"other", QDRANT_COLLECTION}}
    /\ Start
DistSpec == DistInit /\ [][Next]_vars

\* The runs over datasets whose rows all have a text and differ in their
\* id, against a store that already has the collection.
IdInit ==
    /\ BATCH_SIZE = 1
    /\ QDRANT_DISTANCE = None
    /\ RUN_INTERVAL_SECONDS \in {0, 1}
    /\ input = [path |-> "/data/in", format |-> "parquet", columns |-> {"id", "text"}]
    /\ dataset \in IdDataSets
    /\ collections = {"other", QDRANT_COLLECTION}
    /\ Start
IdSpec == IdInit /\ [][Next]_vars

\* ---------------------------------------------------------------- claims
\* The row of partition p at index i has a text that survives the checks of
\* lines 131-137.
ValidText(p, i) ==
    /\ ~IsNone(dataset[p][i].text)
    /\ Strip(Val(dataset[p][i].text)) # <<>>

\* The rows of the points of one upsert call.
Srcs(call) == {call.points[k].src : k \in 1..Len(call.points)}

\* The rows of partition p that were embedded and whose upsert succeeded.
GoodRows(p) ==
    { i \in 1..Len(dataset[p]) :
        /\ ValidText(p, i)
        /\ i \in part[p].embedded
        /\ \E k \in 1..Len(part[p].upserts) :
              part[p].upserts[k].ok /\ i \in Srcs(part[p].upserts[k]) }

\* C1: when process_partition has returned, `processed` counts exactly the
\* rows with a valid text, a fetched embedding and a successful upsert, once
\* each, and `failed` counts none of them: it counts exactly the other rows.
C1_ProcessedCountsGoodRows ==
    \A p \in Partitions :
        part[p].pc = "done" =>
            /\ part[p].processed = Cardinality(GoodRows(p))
            /\ part[p].failed = Len(dataset[p]) - Cardinality(GoodRows(p))

C1_Witness ==
    \E p \in Partitions :
        /\ part[p].pc = "done"
        /\ part[p].processed = 2
        /\ part[p].failed = 1

\* A PartRow step of partition p.
RowStep(p) == part[p].pc = "loop" /\ part'[p].idx = part[p].idx + 1

\* C2: a row whose text is null or all whitespace adds exactly 1 to `failed`
\* and sends no embedding request; the requests of a partition are as many as
\* its rows with a non-blank text read so far.
C2_BlankRowsFailWithoutRequest ==
    /\ [](\A p \in Partitions :
            part[p].pc # "idle" =>
                part[p].requests =
                    Cardinality({i \in 1..part[p].idx : ValidText(p, i)}))
    /\ [][\A p \in Partitions :
            (RowStep(p) /\ ~ValidText(p, part'[p].idx)) =>
                /\ part'[p].failed = part[p].failed + 1
                /\ part'[p].processed = part[p].processed
                /\ part'[p].requests = part[p].requests
                /\ part'[p].buffer = part[p].buffer]_vars

C2_Witness ==
    \E p \in Partitions :
        /\ part[p].pc = "done"
        /\ Len(dataset[p]) = 3
        /\ part[p].requests = 1
        /\ part[p].failed >= 2
        /\ IsNone(dataset[p][1].text)
        /\ ~IsNone(dataset[p][2].text) /\ ~ValidText(p, 2)

\* C3 as stated: whatever BATCH_SIZE is, the buffer never holds more than
\* BATCH_SIZE points.
C3_Original ==
    \A p \in Partitions : Len(part[p].buffer) <= BATCH_SIZE

\* C3: the buffer never holds more than BATCH_SIZE points when BATCH_SIZE is
\* at least 1, and never more than one point when BATCH_SIZE is 0 or less.
C3_BufferBounded ==
    \A p \in Partitions : Len(part[p].buffer) <= Max(BATCH_SIZE, 1)

C3_Witness ==
    \E p \in Partitions :
        /\ BATCH_SIZE = 2
        /\ Len(part[p].buffer) = 2
        /\ part[p].pc = "flush"

\* A step of partition p that made an upsert call.
FlushStep(p) ==
    /\ part[p].pc \in {"loop", "flush"}
    /\ Len(part'[p].upserts) = Len(part[p].upserts) + 1

C5_PartitionNeverRaises ==
    /\ \A p \in Partitions :
          /\ part[p].pc # "raised"
          /\ (part[p].pc = "done" /\ part[p].embedded = {}) =>
                /\ part[p].processed = 0
                /\ part[p].failed = Len(dataset[p])
                /\ part[p].upserts = <<>>
    /\ lastRun = "raised" => \A p \in Partitions : part[p].pc = "idle"
    /\ lastRun = "returned" =>
          result = Some(<< part[1].processed + part[2].processed,
                           part[1].failed + part[2].failed >>)

C5_Witness ==
    /\ lastRun = "returned"
    /\ result = Some(<<0, 3>>)
    /\ \E p \in Partitions :
          /\ part[p].requests = 2
          /\ part[p].failed = 2
          /\ part[p].upserts = <<>>
    /\ \E p \in Partitions :
          /\ Len(part[p].upserts) = 0
          /\ part[p].requests = 1

\* The response is a success status whose body has a non-empty embedding.
GoodResponse(resp) ==
    /\ ~resp.raises
    /\ resp.ok
    /\ ~IsNone(resp.json)
    /\ "embedding" \in DOMAIN Val(resp.json)
    /\ Val(resp.json).embedding # <<>>

\* C6: one fetch_embedding call sends exactly one request and never raises;
\* it returns the body's embedding (which becomes the point's vector) when
\* the status is a success and the embedding field is non-empty, and None
\* (the row is counted failed, nothing is buffered) in every other case.
C6_FetchOneRequestNeverRaises ==
    [][\A p \in Partitions :
         (RowStep(p) /\ ValidText(p, part'[p].idx)) =>
            /\ part'[p].requests = part[p].requests + 1
            /\ part'[p].pc # "raised"
            /\ ~IsNone(part'[p].last)
            /\ IF GoodResponse(Val(part'[p].last))
               THEN /\ Len(part'[p].buffer) = Len(part[p].buffer) + 1
                    /\ part'[p].buffer[Len(part'[p].buffer)].vector =
                          Val(Val(part'[p].last).json).embedding
                    /\ part'[p].failed = part[p].failed
               ELSE /\ part'[p].buffer = part[p].buffer
                    /\ part'[p].failed = part[p].failed + 1]_vars

C6_Witness ==
    \E p \in Partitions :
        /\ ~IsNone(part[p].last)
        /\ Val(part[p].last).ok
        /\ ~IsNone(Val(part[p].last).json)
        /\ "embedding" \in DOMAIN Val(Val(part[p].last).json)
        /\ ~GoodResponse(Val(part[p].last))
        /\ part[p].requests = 2
        /\ part[p].failed = 1
        /\ Len(part[p].buffer) = 1

\* C7: every flush of a batch of k points adds k to `processed` and nothing
\* to `failed` when the upsert succeeds, and k to `failed` and nothing to
\* `processed` when it raises; no point of a batch is in a second upsert
\* call, so a failed batch is not submitted again.
C7_BatchAllOrNothing ==
    /\ [](\A p \in Partitions :
            \A a, b \in 1..Len(part[p].upserts) :
                a # b => Srcs(part[p].upserts[a]) \cap Srcs(part[p].upserts[b]) = {})
    /\ [][\A p \in Partitions :
            FlushStep(p) =>
                LET c == part'[p].upserts[Len(part'[p].upserts)]
                    k == Len(part[p].buffer)
                IN  /\ c.points = part[p].buffer
                    /\ k >= 1
                    /\ IF c.ok
                       THEN /\ part'[p].processed = part[p].processed + k
                            /\ part'[p].failed = part[p].failed
                       ELSE /\ part'[p].failed = part[p].failed + k
                            /\ part'[p].processed = part[p].processed]_vars

C7_Witness ==
    \E p \in Partitions :
        /\ part[p].pc = "done"
        /\ Len(part[p].upserts) = 2
        /\ ~part[p].upserts[1].ok /\ Len(part[p].upserts[1].points) = 2
        /\ part[p].upserts[2].ok
        /\ part[p].processed = 1
        /\ part[p].failed = 2

\* C8: main never ends; an exception of run_ingest is caught and main goes
\* on to the interval test and the sleep; with RUN_INTERVAL_SECONDS > 0
\* run_ingest is called again and again, whatever the earlier runs did.
C8_MainLoopsForever ==
    /\ [](mainpc # "exited")
    /\ [][(lastRun # "raised" /\ lastRun' = "raised") => mainpc' = "interval"]_vars
    /\ (lastRun = "raised" /\ RUN_INTERVAL_SECONDS > 0) ~> (mainpc = "sleep")
    /\ []<>(RUN_INTERVAL_SECONDS <= 0 \/ (mainpc = "running" /\ runpc = "load"))

C8_Witness ==
    /\ RUN_INTERVAL_SECONDS > 0
    /\ runs = 2
    /\ runpc = "load"
    /\ ensureLog.prev = "raised"

\* C9: with RUN_INTERVAL_SECONDS <= 0, run_ingest is called exactly once,
\* main then parks and stays parked: no second run, no exit.
C9_NonPositiveIntervalParks ==
    /\ [](RUN_INTERVAL_SECONDS <= 0 => (runs <= 1 /\ mainpc # "exited"))
    /\ [][mainpc = "park" => (mainpc' = "park" /\ runs' = runs)]_vars
    /\ <>[](RUN_INTERVAL_SECONDS > 0 \/ (mainpc = "park" /\ runs = 1 /\ runpc = "idle"))

C9_Witness ==
    /\ RUN_INTERVAL_SECONDS = 0
    /\ mainpc = "park"
    /\ lastRun = "raised"
    /\ runs = 1

\* C10 as stated: the second of two successive ensure_collection calls (the
\* first having returned) issues no create request.
C10_Original ==
    (ensureLog.prev = "returned" /\ ~IsNone(ensureLog.cur)) =>
        ~Val(ensureLog.cur).create

\* C10: when the first call returned and the listing of the second call
\* succeeds, the second call issues no create request and returns.
C10_SecondEnsureNoCreate ==
    ( /\ ensureLog.prev = "returned"
      /\ ~IsNone(ensureLog.cur)
      /\ Val(ensureLog.cur).listed ) =>
        (~Val(ensureLog.cur).create /\ ~Val(ensureLog.cur).raised)

C10_Witness ==
    /\ ensureLog.prev = "returned"
    /\ ~IsNone(ensureLog.cur)
    /\ Val(ensureLog.cur).listed
    /\ ~Val(ensureLog.cur).create
    /\ runpc = "dispatch"

\* C11 as stated: when the collection exists, ensure_collection issues no
\* create request, also when the listing fails.
C11_Original ==
    (~IsNone(ensureLog.cur) /\ Val(ensureLog.cur).existed) => ~Val(ensureLog.cur).create

\* C11: a run calls ensure_collection once, and the call issues a create
\* request only when the collection is absent or the listing failed; for a
\* collection that exists it issues none when the listing succeeds, and when
\* the listing fails it issues one that the store refuses: the call raises
\* and the collections stay as they were.
C11_CreateOnlyIfAbsentOrUnlisted ==
    /\ [](~IsNone(ensureLog.cur) =>
            LET e == Val(ensureLog.cur)
            IN  /\ (e.existed /\ e.listed) => (~e.create /\ ~e.raised)
                /\ (e.existed /\ e.create) => (~e.listed /\ e.raised)
                /\ (~e.existed) => e.create)
    /\ [][(QDRANT_COLLECTION \in collections) => collections' = collections]_vars
    /\ [][(~IsNone(ensureLog.cur)) => ensureLog'.cur \in {None, ensureLog.cur}]_vars

C11_Witness ==
    /\ ~IsNone(ensureLog.cur)
    /\ Val(ensureLog.cur).existed
    /\ ~Val(ensureLog.cur).listed
    /\ Val(ensureLog.cur).create
    /\ lastRun = "raised"
    /\ QDRANT_COLLECTION \in collections

\* INPUT_PATH is unset, the format is neither csv nor parquet, or the id or
\* the text column is missing.
BadInput ==
    \/ input.path = ""
    \/ input.format # "csv" /\ input.format # "parquet"
    \/ "id" \notin input.columns
    \/ "text" \notin input.columns

\* C12: a run loads the dataset, then ensures the collection, then runs its
\* partitions: a partition runs (and so sends an embedding request or an
\* upsert) only once ensure_collection has returned in that run, and a run
\* whose load fails raises with no listing, no create request, no embedding
\* request and no upsert.
C12_LoadThenEnsureThenPartitions ==
    /\ [](\A p \in Partitions :
            part[p].pc # "idle" =>
                (ensureLog.prev = "returned" /\ IsNone(ensureLog.cur) /\ ~BadInput))
    /\ [](\A p \in Partitions :
            (part[p].requests > 0 \/ part[p].upserts # <<>>) => part[p].pc # "idle")
    /\ [](BadInput =>
            /\ ensureLog = [prev |-> "none", cur |-> None]
            /\ \A p \in Partitions : part[p] = IdlePartition
            /\ store = NoPoints
            /\ lastRun \in {"none", "raised"}
            /\ runpc \in {"idle", "load"})
    /\ [][BadInput => collections' = collections]_vars
    /\ [][(ensureLog'.cur # ensureLog.cur /\ ~IsNone(ensureLog'.cur)) =>
            (runpc = "ensure" /\ \A p \in Partitions : part[p] = IdlePartition)]_vars

C12_Witness ==
    /\ input.columns = {"id"}
    /\ input.path # ""
    /\ lastRun = "raised"
    /\ mainpc = "sleep"
    /\ runs = 2

\* Every row of partition p was embedded and every upsert succeeded.
AllValid(p) ==
    /\ part[p].embedded = 1..Len(dataset[p])
    /\ \A k \in 1..Len(part[p].upserts) : part[p].upserts[k].ok

\* C13: a partition of N rows that all embed and upsert, with BATCH_SIZE
\* B >= 1, makes exactly ceil(N/B) upsert calls, the first floor(N/B) of B
\* points each and a last one of N mod B points when that is not zero, and
\* returns (N, 0).
C13_BatchCountAndSizes ==
    \A p \in Partitions :
        (part[p].pc = "done" /\ BATCH_SIZE >= 1 /\ AllValid(p)) =>
            LET N == Len(dataset[p])
                B == BATCH_SIZE
                calls == part[p].upserts
            IN  /\ Len(calls) = (N + B - 1) \div B
                /\ \A k \in 1..(N \div B) : Len(calls[k].points) = B
                /\ (N % B # 0) => Len(calls[Len(calls)].points) = N % B
                /\ part[p].processed = N
                /\ part[p].failed = 0

C13_Witness ==
    /\ part[1].pc = "done"
    /\ BATCH_SIZE = 2
    /\ Len(dataset[1]) = 3
    /\ AllValid(1)
    /\ Len(part[1].upserts) = 2
    /\ Len(part[1].upserts[2].points) = 1

\* The rows of a sequence of points, in the order of the points.
SrcsOf(points) == [k \in 1..Len(points) |-> points[k].src]

\* The rows of the points of a sequence of upsert calls, in the order they
\* were submitted.
RECURSIVE Submitted(_)
Submitted(calls) ==
    IF calls = <<>> THEN <<>>
    ELSE SrcsOf(Head(calls).points) \o Submitted(Tail(calls))

\* The rows partition p has turned into points: those submitted, followed by
\* those still waiting in the buffer for a flush.
Built(p) ==
    IF part[p].pc \in {"loop", "flush"}
    THEN Submitted(part[p].upserts) \o SrcsOf(part[p].buffer)
    ELSE Submitted(part[p].upserts)

\* C14: the points a partition submits are exactly its rows with a non-blank
\* text and a successful embedding, each carrying its own row's fields and
\* embedding, in input order within a batch and across batches.
C14_PointsAreGoodRowsInOrder ==
    /\ [](\A p \in Partitions :
            LET b == Built(p)
            IN  /\ \A j, k \in 1..Len(b) : j < k => b[j] < b[k]
                /\ {b[k] : k \in 1..Len(b)} = part[p].embedded
                /\ \A k \in 1..Len(b) : b[k] <= part[p].idx /\ ValidText(p, b[k])
                /\ \A c \in 1..Len(part[p].upserts) :
                     \A k \in 1..Len(part[p].upserts[c].points) :
                        LET pt == part[p].upserts[c].points[k]
                        IN  pt.payload = PayloadClean(dataset[p][pt.src]))
    /\ [][\A p \in Partitions :
            RowStep(p) =>
                ((part'[p].idx \in part'[p].embedded) <=>
                    /\ ValidText(p, part'[p].idx)
                    /\ GoodResponse(Val(part'[p].last)))]_vars

C14_Witness ==
    /\ BATCH_SIZE = 2
    /\ Len(dataset[1]) = 3
    /\ ValidText(1, 1) /\ ~ValidText(1, 2) /\ ValidText(1, 3)
    /\ part[1].pc = "loop"
    /\ Len(part[1].upserts) = 1
    /\ SrcsOf(part[1].upserts[1].points) = <<1, 3>>

\* C15: whatever the interleaving of the partitions, the totals a run logs are
\* the component-wise sums of the partitions' pairs; a step of one partition
\* changes no other partition's counters, buffer or calls; and the totals are
\* combined only once every partition has returned.
C15_AggregateIsSumOfPartitions ==
    /\ [](~IsNone(result) =>
            /\ \A p \in Partitions : part[p].pc = "done"
            /\ Val(result)[1] = SumSeq([p \in 1..2 |-> part[p].processed])
            /\ Val(result)[2] = SumSeq([p \in 1..2 |-> part[p].failed]))
    /\ [][\A p, q \in Partitions :
            (runpc = "map" /\ p # q /\ part'[p] # part[p]) => part'[q] = part[q]]_vars
    /\ [][(IsNone(result) /\ ~IsNone(result')) =>
            /\ \A p \in Partitions : part[p].pc = "done"
            /\ part' = part]_vars

C15_Witness ==
    /\ result = Some(<<2, 1>>)
    /\ part[1].processed = 1 /\ part[1].failed = 1
    /\ part[2].processed = 1 /\ part[2].failed = 0
    /\ lastRun = "returned"

\* The spellings of QDRANT_DISTANCE that name the dot product and the
\* Euclidean distance, in any case and with surrounding whitespace.
DotSpellings ==
    { Some(<<"d", "o", "t">>),
      Some(<<"D", "O", "T">>),
      Some(<<SP, "D", "o", "t", SP>>),
      Some(<<"d", "o", "t", "p", "r", "o", "d", "u", "c", "t">>),
      Some(<<"d", "o", "t", "_", "p", "r", "o", "d", "u", "c", "t">>) }
EuclidSpellings ==
    { Some(<<"l", "2">>),
      Some(<<"L", "2", SP>>),
      Some(<<"e", "u", "c", "l", "i", "d">>),
      Some(<<"E", "u", "c", "l", "i", "d", "e", "a", "n">>) }

\* C16: resolve_distance is total and a function of QDRANT_DISTANCE alone:
\* dot, dotproduct and dot_product give DOT, l2, euclid and euclidean give
\* EUCLID, in any case and with surrounding whitespace, and everything else,
\* null and the empty string included, gives COSINE; this is the metric
\* every create_collection request carries.
C16_DistanceResolved ==
    (~IsNone(ensureLog.cur) /\ Val(ensureLog.cur).create) =>
        /\ ~IsNone(Val(ensureLog.cur).distance)
        /\ Val(Val(ensureLog.cur).distance) =
              IF QDRANT_DISTANCE \in DotSpellings THEN "DOT"
              ELSE IF QDRANT_DISTANCE \in EuclidSpellings THEN "EUCLID"
              ELSE "COSINE"

C16_Witness ==
    /\ QDRANT_DISTANCE = Some(<<"L", "2", SP>>)
    /\ ~IsNone(ensureLog.cur)
    /\ Val(ensureLog.cur).distance = Some("EUCLID")
    /\ QDRANT_COLLECTION \in collections

\* The points partition p has built so far: those of its upsert calls and
\* those of its buffer.
PointsOf(p) ==
    UNION { {part[p].upserts[c].points[k] : k \in 1..Len(part[p].upserts[c].points)} :
              c \in 1..Len(part[p].upserts) }
    \cup {part[p].buffer[k] : k \in 1..Len(part[p].buffer)}

\* C17 as stated: the point built for a record carries the record's own id,
\* as a string, whenever the record's id is not null, and a generated
\* identifier only when the record has no id.
C17_Original ==
    \A p \in Partitions :
        \A pt \in PointsOf(p) :
            LET row == dataset[p][pt.src]
            IN  IF IsNone(row.id)
                THEN Head(pt.id) = "u"
                ELSE pt.id = << Digits[Val(row.id) + 1] >>

\* C18: records are conserved: while a partition is being processed,
\* processed + failed + len(buffer) is the number of rows consumed so far,
\* and the pair process_partition returns sums to the number of its rows,
\* whatever the blank texts, embedding failures and upsert failures.
C18_RecordsConserved ==
    \A p \in Partitions :
        /\ part[p].pc \in {"loop", "flush"} =>
              part[p].processed + part[p].failed + Len(part[p].buffer) = part[p].idx
        /\ part[p].pc = "done" =>
              part[p].processed + part[p].failed = Len(dataset[p])

C18_Witness ==
    \E p \in Partitions :
        /\ part[p].pc = "flush"
        /\ part[p].idx = 3
        /\ part[p].processed = 1
        /\ part[p].failed = 1
        /\ Len(part[p].buffer) = 1

\* The upsert calls of partition p that hold the point of row i.
CallsWith(p, i) ==
    { c \in 1..Len(part[p].upserts) : i \in Srcs(part[p].upserts[c]) }

\* C19: every point built from an embedded record is submitted in exactly one
\* upsert call of its partition, also when another flush of the partition
\* fails: a call holds no point twice, a point waiting in the buffer is in no
\* call yet, and at the return every embedded row is in exactly one call.
C19_EachPointInOneUpsert ==
    \A p \in Partitions :
        /\ \A i \in part[p].embedded : Cardinality(CallsWith(p, i)) <= 1
        /\ \A c \in 1..Len(part[p].upserts) :
              Cardinality(Srcs(part[p].upserts[c])) = Len(part[p].upserts[c].points)
        /\ part[p].pc \in {"loop", "flush"} =>
              \A i \in part[p].embedded :
                 (CallsWith(p, i) = {}) <=> (\E k \in 1..Len(part[p].buffer) :
                                                part[p].buffer[k].src = i)
        /\ part[p].pc = "done" =>
              \A i \in part[p].embedded : Cardinality(CallsWith(p, i)) = 1

C19_Witness ==
    \E p \in Partitions :
        /\ part[p].pc = "done"
        /\ part[p].embedded = {1, 2, 3}
        /\ Len(part[p].upserts) = 2
        /\ ~part[p].upserts[1].ok
        /\ part[p].upserts[2].ok

\* Every record of the dataset has an id, and no two records share one.
IdsPresentAndDistinct ==
    LET rows == dataset[1] \o dataset[2]
    IN  /\ \A k \in 1..Len(rows) : ~IsNone(rows[k].id)
        /\ \A j, k \in 1..Len(rows) : j # k => rows[j].id # rows[k].id

\* C20 as stated, for a dataset whose records all have their own id: when a
\* fully successful run is followed by another fully successful run over the
\* same dataset, the store holds after the second the ids, vectors and
\* payloads it held after the first.
C20_Original ==
    ( /\ IdsPresentAndDistinct
      /\ runpc = "map"
      /\ \A p \in Partitions : part[p].pc = "done" /\ part[p].failed = 0
      /\ ~IsNone(snap) )
    => store = Val(snap)

====
